---- MODULE Spec2Model ----
(***************************************************************************)
(* Model of pypal/service/adaptive_payment.py: the ReceiverList type, the  *)
(* dispatcher `call`, the request builders (pay, get_payment_options,      *)
(* set_payment_options, execute, get_shipping_addresses) and the URL       *)
(* helpers (generate_pay_url, get_payment_url).                            *)
(*                                                                         *)
(* Python values are modelled as follows.                                  *)
(*   - strings are TLA+ strings; None is the distinguished string None;    *)
(*   - a receiver-like record (a dict) is a function over ReceiverKeys     *)
(*     whose value is Absent for a key the dict does not hold;             *)
(*   - a parameter mapping (extra, params) is a function over Keys whose   *)
(*     value is NoValue for a key the mapping does not hold.               *)
(***************************************************************************)
EXTENDS Integers, Sequences, FiniteSets, TLC

VARIABLES
    rl,                 \* the ReceiverList object the list operations act on
    rl_op,              \* the last list operation: "init", "append", "extend"
    rl_arg,             \* its argument, as the sequence of records it iterates
    rl_before,          \* the contents of the list before that operation
    op,                 \* the last builder/dispatcher invocation
    args,               \* its arguments
    raised,             \* the exception it raised (NoError when it returned)
    returned,           \* what it returned to its caller
    outbound,           \* the client.call invocations it made, in order
    extra_before,       \* contents of the `extra` object when it was entered
    extra_after,        \* contents of the `extra` object when it was left
    pay_extra_default,  \* the default of pay's `extra={}` parameter
    spo_extra_default,  \* the default of set_payment_options' `extra={}`
    gpu_extra_default   \* the default of get_payment_url's `extra={}`

rl_vars == <<rl, rl_op, rl_arg, rl_before>>

svc_vars == <<op, args, raised, returned, outbound, extra_before, extra_after,
              pay_extra_default, spo_extra_default, gpu_extra_default>>

vars == <<rl, rl_op, rl_arg, rl_before, op, args, raised, returned, outbound,
          extra_before, extra_after, pay_extra_default, spo_extra_default,
          gpu_extra_default>>

----------------------------------------------------------------------------
(* Bounds *)

\* longest ReceiverList the list operations build, and longest sequence of
\* records handed to one of them
MaxListLen == 2

----------------------------------------------------------------------------
(* Module constants *)

PRODUCTION_ENDPOINT == "https://svcs.paypal.com"

SANDBOX_ENDPOINT == "https://svcs.sandbox.paypal.com"

ACTION_PAY == "PAY"

ACTION_CREATE == "CREATE"

ACTION_PAY_PRIMARY == "PAY_PRIMARY"

SUPPORTED_PAY_ACTIONS == {ACTION_PAY, ACTION_CREATE, ACTION_PAY_PRIMARY}

FEE_PAYER_SENDER == "SENDER"

FEE_PAYER_PRIMARY_RECEIVER == "PRIMARYRECEIVER"

FEE_PAYER_EACH_RECEIVER == "EACHRECEIVER"

FEE_PAYER_SECONDARY_RECEIVERS == "SECONDARYONLY"

SUPPORTED_FEE_PAYERS == {FEE_PAYER_SENDER, FEE_PAYER_PRIMARY_RECEIVER,
                         FEE_PAYER_EACH_RECEIVER, FEE_PAYER_SECONDARY_RECEIVERS}

----------------------------------------------------------------------------
(* Python values *)

None == "<None>"

Absent == "<absent>"

\* Python truthiness of a string-or-None value: `not v`
Falsy(v) == v \in {None, ""}

ReceiverKeys == {"email", "amount", "primary"}

\* obj.get(key, default)
DictGet(obj, key, default) == IF obj[key] = Absent THEN default ELSE obj[key]

\* `not obj` for a dict: true when it holds no key
DictIsEmpty(obj) == \A k \in DOMAIN obj : obj[k] = Absent

----------------------------------------------------------------------------
(* ReceiverList *)

\* ReceiverList.append with the guard written with `or`: an entry needs both
ReceiverList_append_needs_both(self, obj) ==
    LET email  == DictGet(obj, "email", None)
        amount == DictGet(obj, "amount", None)
    IN  IF Falsy(email) \/ Falsy(amount)
        THEN self
        ELSE Append(self, [email   |-> DictGet(obj, "email", None),
                           amount  |-> DictGet(obj, "amount", None),
                           primary |-> DictGet(obj, "primary", "false")])

\* ReceiverList.append with `primary` defaulted on any empty value
ReceiverList_append_primary_or(self, obj) ==
    LET email  == DictGet(obj, "email", None)
        amount == DictGet(obj, "amount", None)
    IN  IF Falsy(email) /\ Falsy(amount)
        THEN self
        ELSE Append(self, [email   |-> DictGet(obj, "email", None),
                           amount  |-> DictGet(obj, "amount", None),
                           primary |-> IF obj["primary"] \in {Absent, None, ""}
                                       THEN "false" ELSE obj["primary"]])

\* ReceiverList.append(self, obj): the list after the call
ReceiverList_append(self, obj) ==
    LET email  == DictGet(obj, "email", None)
        amount == DictGet(obj, "amount", None)
    IN  IF Falsy(email) /\ Falsy(amount)
        THEN self
        ELSE Append(self, [email   |-> DictGet(obj, "email", None),
                           amount  |-> DictGet(obj, "amount", None),
                           primary |-> DictGet(obj, "primary", "false")])

RECURSIVE ReceiverList_extend(_, _)
\* ReceiverList.extend(self, iterable): append each element in turn
ReceiverList_extend(self, iterable) ==
    IF iterable = <<>>
    THEN self
    ELSE ReceiverList_extend(ReceiverList_append(self, Head(iterable)),
                             Tail(iterable))

\* ReceiverList(iterable): a new list, extended when iterable is non-empty
ReceiverList_init(iterable) ==
    IF iterable # <<>> THEN ReceiverList_extend(<<>>, iterable) ELSE <<>>

----------------------------------------------------------------------------
(* Parameter mappings: extra, params *)

Keys == {"actionType", "receiverList", "currencyCode", "cancelUrl",
         "returnUrl", "ipnNotificationUrl", "feesPayer", "payKey",
         "initiatingEntity", "displayOptions", "shippingAddressId",
         "senderOptions", "receiverOptions", "key", "custom"}

\* the value of a key the mapping does not hold
NoValue == [kind |-> "absent", s |-> "", items |-> <<>>]

\* a string (or None) value
Str(s) == [kind |-> "str", s |-> s, items |-> <<>>]

\* the value {'receiver': receivers}
ReceiverField(receivers) == [kind |-> "receiver", s |-> "", items |-> receivers]

\* {}
EmptyDict == [k \in Keys |-> NoValue]

\* the keys a mapping holds
KeysOf(d) == {k \in Keys : d[k] # NoValue}

\* d.update(kv), kv a function over the keys it sets
DictUpdate(d, kv) == [k \in Keys |-> IF k \in DOMAIN kv THEN kv[k] ELSE d[k]]

----------------------------------------------------------------------------
(* Exceptions *)

NoError == [exc |-> "none", check |-> "", value |-> ""]

MissingRequiredField(name) ==
    [exc |-> "ValueError", check |-> "required", value |-> name]

InvalidCurrencyCode(code) ==
    [exc |-> "ValueError", check |-> "currency_code", value |-> code]

UnsupportedActionType(action_type) ==
    [exc |-> "ValueError", check |-> "action_type", value |-> action_type]

UnsupportedFeesPayer(fees_payer) ==
    [exc |-> "ValueError", check |-> "fees_payer", value |-> fees_payer]

\* pay(**locals()) with a keyword pay does not declare
UnexpectedKeyword(name) ==
    [exc |-> "TypeError", check |-> "keyword", value |-> name]

----------------------------------------------------------------------------
(* pypal.util and pypal.currency *)

RECURSIVE check_required(_, _)
\* check_required(params, required): the error for the first name of
\* `required`, in order, whose value is empty; empty[name] is `not value`
check_required(empty, required) ==
    IF required = <<>> THEN NoError
    ELSE IF empty[Head(required)] THEN MissingRequiredField(Head(required))
    ELSE check_required(empty, Tail(required))

\* set_nonempty_param(params, key, value): params[key] = value when value
\* is non-empty, otherwise nothing
set_nonempty_param(params, key, value) ==
    IF Falsy(value) THEN params ELSE [params EXCEPT ![key] = Str(value)]

\* the currency table
CurrencyCodes == {"USD", "EUR"}

\* currency.is_valid_code(code)
is_valid_code(code) == code \in CurrencyCodes

----------------------------------------------------------------------------
(* The client *)

Clients == [in_sandbox : BOOLEAN]

\* what client.call may answer
Responses == {[success |-> FALSE, payKey |-> None],
              [success |-> TRUE,  payKey |-> None],
              [success |-> TRUE,  payKey |-> "AP-1"]}

\* client.get_paypal_url(path)
get_paypal_url(client, path) ==
    (IF client.in_sandbox THEN "https://www.sandbox.paypal.com"
                          ELSE "https://www.paypal.com") \o path

----------------------------------------------------------------------------
(* call *)

\* call with the two endpoints the other way round
call_swapped_endpoints(client, method, params) ==
    [service  |-> "AdaptivePayments",
     method   |-> method,
     endpoint |-> IF client.in_sandbox THEN PRODUCTION_ENDPOINT
                                       ELSE SANDBOX_ENDPOINT,
     params   |-> params]

\* call(client, method, params): the client.call invocation it makes
call(client, method, params) ==
    [service  |-> "AdaptivePayments",
     method   |-> method,
     endpoint |-> IF client.in_sandbox THEN SANDBOX_ENDPOINT
                                       ELSE PRODUCTION_ENDPOINT,
     params   |-> params]

----------------------------------------------------------------------------
(* generate_pay_url *)

\* generate_pay_url(client, pay_key, embedded)
generate_pay_url(client, pay_key, embedded) ==
    get_paypal_url(client,
                   IF embedded
                   THEN "/webapps/adaptivepayment/flow/pay?paykey=" \o pay_key
                   ELSE "/cgi-bin/webscr?cmd=_ap-payment&paykey=" \o pay_key)

----------------------------------------------------------------------------
(* pay *)

\* the receivers argument: None, one dict, a list, a tuple or a ReceiverList;
\* items holds the dict (kind "dict") or the elements
ReceiversFalsy(receivers) ==
    CASE receivers.kind = "None" -> TRUE
      [] receivers.kind = "dict" -> DictIsEmpty(receivers.items[1])
      [] OTHER                   -> receivers.items = <<>>

\* `not value` of the locals of pay that check_required examines
pay_locals_empty(a) ==
    [cancel_url       |-> Falsy(a.cancel_url),
     return_url       |-> Falsy(a.return_url),
     currency_code    |-> Falsy(a.currency_code),
     action_type      |-> Falsy(a.action_type),
     receivers        |-> ReceiversFalsy(a.receivers),
     ipn_callback_url |-> Falsy(a.ipn_callback_url)]

PayRequired == <<"cancel_url", "return_url", "currency_code",
                 "action_type", "receivers", "ipn_callback_url">>

\* the checks of pay with the action type examined before the currency code
pay_validate_action_first(a) ==
    LET missing == check_required(pay_locals_empty(a), PayRequired)
    IN  IF missing # NoError THEN missing
        ELSE IF a.action_type \notin SUPPORTED_PAY_ACTIONS
        THEN UnsupportedActionType(a.action_type)
        ELSE IF ~is_valid_code(a.currency_code)
        THEN InvalidCurrencyCode(a.currency_code)
        ELSE IF ~Falsy(a.fees_payer) /\ a.fees_payer \notin SUPPORTED_FEE_PAYERS
        THEN UnsupportedFeesPayer(a.fees_payer)
        ELSE NoError

\* the checks of pay, in order: the error raised, or NoError
pay_validate(a) ==
    LET missing == check_required(pay_locals_empty(a), PayRequired)
    IN  IF missing # NoError THEN missing
        ELSE IF ~is_valid_code(a.currency_code)
        THEN InvalidCurrencyCode(a.currency_code)
        ELSE IF a.action_type \notin SUPPORTED_PAY_ACTIONS
        THEN UnsupportedActionType(a.action_type)
        ELSE IF ~Falsy(a.fees_payer) /\ a.fees_payer \notin SUPPORTED_FEE_PAYERS
        THEN UnsupportedFeesPayer(a.fees_payer)
        ELSE NoError

\* the receivers of pay as a ReceiverList; a single dict is wrapped in a list
\* (items already holds just that dict), and None never gets this far
pay_receivers(receivers) ==
    IF receivers.kind = "ReceiverList"
    THEN receivers.items
    ELSE ReceiverList_init(receivers.items)

\* the payload of pay with the fields of `extra` winning over the arguments
pay_payload_extra_wins(a, extra) ==
    LET own == [actionType   |-> Str(a.action_type),
                receiverList |-> ReceiverField(pay_receivers(a.receivers)),
                currencyCode |-> Str(a.currency_code),
                cancelUrl    |-> Str(a.cancel_url),
                returnUrl    |-> Str(a.return_url)]
        updated == [k \in Keys |-> IF k \in DOMAIN own /\ extra[k] = NoValue
                                   THEN own[k] ELSE extra[k]]
    IN  set_nonempty_param(
            set_nonempty_param(updated, "ipnNotificationUrl",
                               a.ipn_callback_url),
            "feesPayer", a.fees_payer)

\* the payload of pay: `extra` after update and the two set_nonempty_param
pay_payload(a, extra) ==
    LET updated == DictUpdate(extra,
                       [actionType   |-> Str(a.action_type),
                        receiverList |-> ReceiverField(pay_receivers(a.receivers)),
                        currencyCode |-> Str(a.currency_code),
                        cancelUrl    |-> Str(a.cancel_url),
                        returnUrl    |-> Str(a.return_url)])
    IN  set_nonempty_param(
            set_nonempty_param(updated, "ipnNotificationUrl",
                               a.ipn_callback_url),
            "feesPayer", a.fees_payer)

\* pay that writes its fields into `extra` before it validates
pay_update_before_checks(a, extra) ==
    LET error == pay_validate(a)
    IN  IF error # NoError
        THEN [raised |-> error, extra |-> pay_payload(a, extra), calls |-> <<>>]
        ELSE [raised |-> NoError,
              extra  |-> pay_payload(a, extra),
              calls  |-> <<call(a.client, "Pay", pay_payload(a, extra))>>]

\* pay(client, ..., extra) on the mapping `extra`: the exception raised, the
\* mapping afterwards and the client.call invocations made
pay(a, extra) ==
    LET error == pay_validate(a)
    IN  IF error # NoError
        THEN [raised |-> error, extra |-> extra, calls |-> <<>>]
        ELSE [raised |-> NoError,
              extra  |-> pay_payload(a, extra),
              calls  |-> <<call(a.client, "Pay", pay_payload(a, extra))>>]

----------------------------------------------------------------------------
(* set_payment_options *)

\* set_payment_options(client, pay_key, ..., extra) on the mapping `extra`
set_payment_options(a, extra) ==
    LET keyed == [extra EXCEPT !["payKey"] = Str(a.pay_key)]
        e1 == set_nonempty_param(keyed, "initiatingEntity", a.initiating_entity)
        e2 == set_nonempty_param(e1, "displayOptions", a.display_options)
        e3 == set_nonempty_param(e2, "shippingAddressId", a.shipping_address_id)
        e4 == set_nonempty_param(e3, "senderOptions", a.sender_options)
        e5 == set_nonempty_param(e4, "receiverOptions", a.receiver_options)
    IN  [raised |-> NoError,
         extra  |-> e5,
         calls  |-> <<call(a.client, "SetPaymentOptions", e5)>>]

\* {'payKey': pay_key} and {'key': key}
SingleKeyDict(key, value) == [EmptyDict EXCEPT ![key] = Str(value)]

\* get_payment_options(client, pay_key)
get_payment_options(client, pay_key) ==
    call(client, "GetPaymentOptions", SingleKeyDict("payKey", pay_key))

\* execute(client, pay_key)
execute(client, pay_key) ==
    call(client, "ExecutePayment", SingleKeyDict("payKey", pay_key))

\* get_shipping_addresses(client, key)
get_shipping_addresses(client, key) ==
    call(client, "GetShippingAddresses", SingleKeyDict("key", key))

----------------------------------------------------------------------------
(* get_payment_url *)

\* the parameters pay declares
PayParams == {"client", "action_type", "currency_code", "cancel_url",
              "return_url", "ipn_callback_url", "receivers", "fees_payer",
              "extra"}

\* locals() on entry of get_payment_url: its own parameters
GetPaymentUrlLocals == PayParams \cup {"embedded"}

\* what a function hands back: nothing when it raised, the client's response
\* object as it is, None, or a URL
Nothing == [kind |-> "raised", url |-> ""]

ReturnedNone == [kind |-> "None", url |-> ""]

ReturnedUrl(url) == [kind |-> "url", url |-> url]

ReturnedResponse == [kind |-> "response", url |-> ""]

\* get_payment_url(client, ..., extra, embedded) on the mapping `extra`, the
\* client answering `response`: pay(**locals()), then the URL or None
get_payment_url(a, extra, response) ==
    IF ~(GetPaymentUrlLocals \subseteq PayParams)
    THEN [raised   |-> UnexpectedKeyword(CHOOSE n \in GetPaymentUrlLocals :
                                             n \notin PayParams),
          extra    |-> extra,
          calls    |-> <<>>,
          returned |-> Nothing]
    ELSE LET paid == pay(a, extra)
         IN  [raised   |-> paid.raised,
              extra    |-> paid.extra,
              calls    |-> paid.calls,
              returned |->
                  IF paid.raised # NoError THEN Nothing
                  ELSE IF ~response.success THEN ReturnedNone
                  ELSE IF Falsy(response.payKey) THEN ReturnedNone
                  ELSE ReturnedUrl(generate_pay_url(a.client, response.payKey,
                                                    a.embedded))]

----------------------------------------------------------------------------
(* Inputs of the list operations *)

Record(email, amount, primary) ==
    [email |-> email, amount |-> amount, primary |-> primary]

\* receiver-like records: without email and amount, with one of them, with
\* both; `primary` absent, None or set
ReceiverRecords ==
    {Record(Absent, "", Absent),   Record(Absent, "", "true"),
     Record("e@x", "", Absent),    Record("e@x", "", None),
     Record(Absent, "10", "true"),
     Record("e@x", "10", Absent),  Record("e@x", "10", None),
     Record("e@x", "10", "true")}

RECURSIVE SeqsUpTo(_, _)
\* all sequences over S of length at most n
SeqsUpTo(S, n) ==
    IF n = 0 THEN {<<>>}
    ELSE LET shorter == SeqsUpTo(S, n - 1)
         IN  shorter \cup {Append(s, x) : s \in shorter, x \in S}

RecordSeqs == SeqsUpTo(ReceiverRecords, MaxListLen)

----------------------------------------------------------------------------
(* Operations on a ReceiverList object *)

ListInit(iterable) ==
    /\ rl_op' = "init"
    /\ rl_arg' = iterable
    /\ rl_before' = <<>>
    /\ rl' = ReceiverList_init(iterable)
    /\ UNCHANGED svc_vars

ListAppend(obj) ==
    /\ Len(rl) < MaxListLen
    /\ rl_op' = "append"
    /\ rl_arg' = <<obj>>
    /\ rl_before' = rl
    /\ rl' = ReceiverList_append(rl, obj)
    /\ UNCHANGED svc_vars

ListExtend(iterable) ==
    /\ Len(rl) + Len(iterable) <= MaxListLen
    /\ rl_op' = "extend"
    /\ rl_arg' = iterable
    /\ rl_before' = rl
    /\ rl' = ReceiverList_extend(rl, iterable)
    /\ UNCHANGED svc_vars

----------------------------------------------------------------------------
(* Inputs of the builders *)

NotSupplied == [supplied |-> FALSE, value |-> EmptyDict]

Supplied(d) == [supplied |-> TRUE, value |-> d]

\* a caller's mapping that already holds derived and foreign fields
StaleExtra ==
    [EmptyDict EXCEPT !["custom"] = Str("memo"),
                      !["feesPayer"] = Str(FEE_PAYER_EACH_RECEIVER),
                      !["cancelUrl"] = Str("https://old/cancel"),
                      !["receiverList"] = Str("stale"),
                      !["displayOptions"] = Str("old-display")]

ReceiversNone == [kind |-> "None", items |-> <<>>]

OneDict(obj) == [kind |-> "dict", items |-> <<obj>>]

ListOf(items) == [kind |-> "list", items |-> items]

TupleOf(items) == [kind |-> "tuple", items |-> items]

\* a ReceiverList the caller built from `items`
BuiltReceiverList(items) ==
    [kind |-> "ReceiverList", items |-> ReceiverList_init(items)]

FullRecord == [email |-> "e@x", amount |-> "10", primary |-> "true"]

PlainRecord == [email |-> "e@x", amount |-> "10", primary |-> Absent]

EmailOnlyRecord == [email |-> "e@x", amount |-> Absent, primary |-> None]

PrimaryOnlyRecord == [email |-> Absent, amount |-> Absent, primary |-> "true"]

BlankRecord == [email |-> "", amount |-> None, primary |-> Absent]

\* a valid call of pay
BasePayArgs ==
    [client           |-> [in_sandbox |-> TRUE],
     action_type      |-> ACTION_PAY,
     currency_code    |-> "USD",
     cancel_url       |-> "https://shop/cancel",
     return_url       |-> "https://shop/return",
     ipn_callback_url |-> "https://shop/ipn",
     receivers        |-> ListOf(<<PlainRecord>>),
     fees_payer       |-> None,
     extra            |-> NotSupplied]

\* other values of single arguments of pay, as <<name, value>>
PayChanges ==
    {<<"client", [in_sandbox |-> FALSE]>>,
     <<"action_type", None>>, <<"action_type", "REFUND">>,
     <<"action_type", ACTION_CREATE>>,
     <<"currency_code", "">>, <<"currency_code", "XXX">>,
     <<"cancel_url", "">>,
     <<"return_url", None>>,
     <<"ipn_callback_url", None>>,
     <<"receivers", ReceiversNone>>,
     <<"receivers", ListOf(<<>>)>>,
     <<"receivers", OneDict(FullRecord)>>,
     <<"receivers", ListOf(<<PrimaryOnlyRecord>>)>>,
     <<"receivers", TupleOf(<<EmailOnlyRecord, BlankRecord>>)>>,
     <<"receivers", BuiltReceiverList(<<FullRecord, PlainRecord>>)>>,
     <<"fees_payer", FEE_PAYER_SENDER>>, <<"fees_payer", "NOBODY">>,
     <<"extra", Supplied(EmptyDict)>>, <<"extra", Supplied(StaleExtra)>>}

\* `base` with the arguments named by one or two changes replaced
WithTwoChanges(base, changes) ==
    {[[base EXCEPT ![c1[1]] = c1[2]] EXCEPT ![c2[1]] = c2[2]] :
        c1 \in changes, c2 \in changes}

\* the calls of pay examined in depth
PayArgSets == {BasePayArgs} \cup WithTwoChanges(BasePayArgs, PayChanges)

\* the calls of get_payment_url: either client, a good or an empty currency
GetUrlArgSets ==
    {[BasePayArgs EXCEPT !.client = c, !.currency_code = cc] :
        c \in Clients, cc \in {"USD", ""}}

\* a few calls of pay: either client, with or without fees payer and extra
PayArgsCore ==
    {[BasePayArgs EXCEPT !.client = c, !.fees_payer = f, !.extra = e,
                         !.currency_code = cc] :
        c \in Clients, f \in {None, FEE_PAYER_SENDER},
        e \in {NotSupplied, Supplied(StaleExtra)}, cc \in {"USD", ""}}

\* a call of set_payment_options
BaseOptionsArgs ==
    [client              |-> [in_sandbox |-> TRUE],
     pay_key             |-> "AP-1",
     receiver_options    |-> "receiver-options",
     display_options     |-> None,
     sender_options      |-> None,
     shipping_address_id |-> None,
     initiating_entity   |-> None,
     extra               |-> NotSupplied]

OptionsChanges ==
    {<<"client", [in_sandbox |-> FALSE]>>,
     <<"receiver_options", None>>,
     <<"display_options", "display-options">>,
     <<"sender_options", "sender-options">>,
     <<"shipping_address_id", "">>,
     <<"shipping_address_id", "ADDR-1">>,
     <<"initiating_entity", "initiating-entity">>,
     <<"extra", Supplied(StaleExtra)>>}

OptionsArgSets ==
    {BaseOptionsArgs} \cup WithTwoChanges(BaseOptionsArgs, OptionsChanges)

PayKeys == {"AP-1", None}

\* parameters handed to call directly
CallParams == {EmptyDict, StaleExtra}

CallMethods == {"Pay", "Refund"}

----------------------------------------------------------------------------
(* Invocations *)

\* the record of one invocation
Invoked(name, a, out, ret, extra0) ==
    /\ op' = name
    /\ args' = a
    /\ raised' = out.raised
    /\ outbound' = out.calls
    /\ extra_before' = extra0
    /\ extra_after' = out.extra
    /\ returned' = ret

\* a builder hands back what client.call answered
Answer(out) == IF out.raised = NoError THEN ReturnedResponse ELSE Nothing

Pay(a) ==
    LET extra0 == IF a.extra.supplied THEN a.extra.value ELSE pay_extra_default
        out    == pay(a, extra0)
    IN  /\ Invoked("pay", a, out, Answer(out), extra0)
        /\ pay_extra_default' =
               IF a.extra.supplied THEN pay_extra_default ELSE out.extra
        /\ UNCHANGED <<spo_extra_default, gpu_extra_default, rl_vars>>

GetPaymentUrl(a, embedded, response) ==
    LET extra0 == IF a.extra.supplied THEN a.extra.value ELSE gpu_extra_default
        locals == [client           |-> a.client,
                   action_type      |-> a.action_type,
                   currency_code    |-> a.currency_code,
                   cancel_url       |-> a.cancel_url,
                   return_url       |-> a.return_url,
                   ipn_callback_url |-> a.ipn_callback_url,
                   receivers        |-> a.receivers,
                   fees_payer       |-> a.fees_payer,
                   extra            |-> a.extra,
                   embedded         |-> embedded]
        out    == get_payment_url(locals, extra0, response)
    IN  /\ Invoked("get_payment_url", locals, out, out.returned, extra0)
        /\ gpu_extra_default' =
               IF a.extra.supplied THEN gpu_extra_default ELSE out.extra
        /\ UNCHANGED <<pay_extra_default, spo_extra_default, rl_vars>>

SetPaymentOptions(a) ==
    LET extra0 == IF a.extra.supplied THEN a.extra.value ELSE spo_extra_default
        out    == set_payment_options(a, extra0)
    IN  /\ Invoked("set_payment_options", a, out, Answer(out), extra0)
        /\ spo_extra_default' =
               IF a.extra.supplied THEN spo_extra_default ELSE out.extra
        /\ UNCHANGED <<pay_extra_default, gpu_extra_default, rl_vars>>

\* the outcome of an invocation that has no `extra` and makes the one
\* client.call `made`
Made(made) == [raised |-> NoError, extra |-> EmptyDict, calls |-> <<made>>]

GetPaymentOptions(client, pay_key) ==
    LET out == Made(get_payment_options(client, pay_key))
    IN  /\ Invoked("get_payment_options",
                   [client |-> client, pay_key |-> pay_key],
                   out, Answer(out), EmptyDict)
        /\ UNCHANGED <<pay_extra_default, spo_extra_default,
                       gpu_extra_default, rl_vars>>

Execute(client, pay_key) ==
    LET out == Made(execute(client, pay_key))
    IN  /\ Invoked("execute", [client |-> client, pay_key |-> pay_key],
                   out, Answer(out), EmptyDict)
        /\ UNCHANGED <<pay_extra_default, spo_extra_default,
                       gpu_extra_default, rl_vars>>

GetShippingAddresses(client, key) ==
    LET out == Made(get_shipping_addresses(client, key))
    IN  /\ Invoked("get_shipping_addresses", [client |-> client, key |-> key],
                   out, Answer(out), EmptyDict)
        /\ UNCHANGED <<pay_extra_default, spo_extra_default,
                       gpu_extra_default, rl_vars>>

Call(client, method, params) ==
    LET out == Made(call(client, method, params))
    IN  /\ Invoked("call",
                   [client |-> client, method |-> method, params |-> params],
                   out, Answer(out), EmptyDict)
        /\ UNCHANGED <<pay_extra_default, spo_extra_default,
                       gpu_extra_default, rl_vars>>

----------------------------------------------------------------------------
(* Specifications *)

Init ==
    /\ rl = <<>>
    /\ rl_op = "none"
    /\ rl_arg = <<>>
    /\ rl_before = <<>>
    /\ op = "none"
    /\ args = [client |-> [in_sandbox |-> FALSE]]
    /\ raised = NoError
    /\ returned = Nothing
    /\ outbound = <<>>
    /\ extra_before = EmptyDict
    /\ extra_after = EmptyDict
    /\ pay_extra_default = EmptyDict
    /\ spo_extra_default = EmptyDict
    /\ gpu_extra_default = EmptyDict

\* the builders and the dispatcher, called in any order
Next ==
    \/ \E a \in PayArgsCore : Pay(a)
    \/ \E a \in OptionsArgSets : SetPaymentOptions(a)
    \/ \E c \in Clients, k \in PayKeys : GetPaymentOptions(c, k)
    \/ \E c \in Clients, k \in PayKeys : Execute(c, k)
    \/ \E c \in Clients, k \in PayKeys : GetShippingAddresses(c, k)
    \/ \E c \in Clients, m \in CallMethods, p \in CallParams : Call(c, m, p)

Spec == Init /\ [][Next]_vars

\* pay and get_payment_url, called in any order on the calls examined in depth
NextPay ==
    \/ \E a \in PayArgSets : Pay(a)
    \/ \E a \in GetUrlArgSets, e \in BOOLEAN, r \in Responses :
           GetPaymentUrl(a, e, r)

SpecPay == Init /\ [][NextPay]_vars

\* one ReceiverList, built and grown in any order
NextList ==
    \/ \E records \in RecordSeqs : ListInit(records)
    \/ \E obj \in ReceiverRecords : ListAppend(obj)
    \/ \E records \in RecordSeqs : ListExtend(records)

SpecList == Init /\ [][NextList]_vars

----------------------------------------------------------------------------
(* Properties *)

\* the fields an invocation that was given no `extra` provides itself
C1_OwnKeys ==
    IF op = "pay"
    THEN {"actionType", "receiverList", "currencyCode", "cancelUrl",
          "returnUrl"}
         \cup (IF Falsy(args.ipn_callback_url) THEN {} ELSE {"ipnNotificationUrl"})
         \cup (IF Falsy(args.fees_payer) THEN {} ELSE {"feesPayer"})
    ELSE {"payKey"}
         \cup (IF Falsy(args.initiating_entity) THEN {} ELSE {"initiatingEntity"})
         \cup (IF Falsy(args.display_options) THEN {} ELSE {"displayOptions"})
         \cup (IF Falsy(args.shipping_address_id) THEN {} ELSE {"shippingAddressId"})
         \cup (IF Falsy(args.sender_options) THEN {} ELSE {"senderOptions"})
         \cup (IF Falsy(args.receiver_options) THEN {} ELSE {"receiverOptions"})

\* C1: a call of pay or set_payment_options that is given no `extra` starts
\* from an empty mapping, so the payload it dispatches holds only fields the
\* call itself provides and none written by an earlier call.
C1_NoCrossCallAliasing ==
    (op \in {"pay", "set_payment_options"} /\ ~args.extra.supplied)
        => /\ extra_before = EmptyDict
           /\ \A i \in 1..Len(outbound) :
                  KeysOf(outbound[i].params) \subseteq C1_OwnKeys

\* some local validation of pay fails on the arguments `a`
C2_Invalid(a) ==
    \/ Falsy(a.cancel_url) \/ Falsy(a.return_url) \/ Falsy(a.currency_code)
    \/ Falsy(a.action_type) \/ Falsy(a.ipn_callback_url)
    \/ a.receivers.kind = "None"
    \/ (a.receivers.kind = "dict" /\ DictIsEmpty(a.receivers.items[1]))
    \/ (a.receivers.kind \in {"list", "tuple", "ReceiverList"}
            /\ Len(a.receivers.items) = 0)
    \/ a.currency_code \notin CurrencyCodes
    \/ a.action_type \notin {"PAY", "CREATE", "PAY_PRIMARY"}
    \/ (~Falsy(a.fees_payer)
            /\ a.fees_payer \notin {"SENDER", "PRIMARYRECEIVER", "EACHRECEIVER",
                                    "SECONDARYONLY"})

\* C2: a call of pay on which a local validation fails raises, makes no
\* client.call and leaves the `extra` mapping as it was.
C2_FailedValidationHasNoEffect ==
    (op = "pay" /\ C2_Invalid(args))
        => /\ raised # NoError
           /\ outbound = <<>>
           /\ extra_after = extra_before
           /\ (~args.extra.supplied => pay_extra_default = extra_before)

\* a call of pay with a bad fees payer and a caller's non-empty `extra` raised
C2_Witness ==
    /\ op = "pay"
    /\ raised = UnsupportedFeesPayer("NOBODY")
    /\ args.extra.supplied
    /\ extra_before = StaleExtra

\* C3: get_payment_url on arguments that pass pay's validation calls pay and
\* returns None or the URL generated from the payKey; it does not raise.
C3_GetPaymentUrlReturns ==
    (op = "get_payment_url" /\ pay_validate(args) = NoError)
        => /\ raised = NoError
           /\ Len(outbound) = 1
           /\ outbound[1].method = "Pay"
           /\ returned \in {ReturnedNone}
                  \cup {ReturnedUrl(generate_pay_url(args.client, r.payKey,
                                                     args.embedded)) :
                            r \in {x \in Responses :
                                       x.success /\ ~Falsy(x.payKey)}}

\* C4: every entry of a ReceiverList has both email and amount non-empty.
C4_EntriesHaveEmailAndAmount ==
    \A i \in 1..Len(rl) : ~Falsy(rl[i].email) /\ ~Falsy(rl[i].amount)

\* the record has at least one of email and amount non-empty
C5_HasEmailOrAmount(record) ==
    \/ record.email \notin {Absent, None, ""}
    \/ record.amount \notin {Absent, None, ""}

\* None for a key the record lacks
C5_Value(v) == IF v = Absent THEN None ELSE v

\* C5: ReceiverList(records), extend(records) and append(record) add, after
\* the entries already in the list, one entry for each record that has email
\* or amount non-empty, in the records' order, and nothing for the others.
C5_KeepsRecordsWithEmailOrAmount ==
    rl_op \in {"init", "extend", "append"}
        => LET kept == SelectSeq(rl_arg, C5_HasEmailOrAmount)
               n    == Len(rl_before)
           IN  /\ Len(rl) = n + Len(kept)
               /\ \A i \in 1..n : rl[i] = rl_before[i]
               /\ \A i \in 1..Len(kept) :
                      /\ rl[n + i].email = C5_Value(kept[i].email)
                      /\ rl[n + i].amount = C5_Value(kept[i].amount)

\* a list was built from two records of which only the second was kept
C5_Witness ==
    /\ rl_op = "init"
    /\ Len(rl_arg) = 2
    /\ ~C5_HasEmailOrAmount(rl_arg[1])
    /\ Len(rl) = 1
    /\ rl[1].email = "e@x"

\* the append stored an entry
C6_Stored == rl_op = "append" /\ Len(rl) = Len(rl_before) + 1

\* C6 as stated: the entry append stores has the fields email, amount and
\* primary; email and amount are the record's, and primary is the record's
\* unless that is absent or empty (None, ""), when it is "false".
C6_PrimaryDefaultsWhenEmpty ==
    C6_Stored
        => LET obj == rl_arg[1]
               entry == rl[Len(rl)]
           IN  /\ DOMAIN entry = {"email", "amount", "primary"}
               /\ entry.email = C5_Value(obj.email)
               /\ entry.amount = C5_Value(obj.amount)
               /\ entry.primary = IF obj.primary \in {Absent, None, ""}
                                  THEN "false" ELSE obj.primary

\* C6 as amended: primary is "false" only when the record has no `primary`
\* key; a primary that is present is copied as it is, empty or not.
C6_PrimaryDefaultsWhenAbsent ==
    C6_Stored
        => LET obj == rl_arg[1]
               entry == rl[Len(rl)]
           IN  /\ DOMAIN entry = {"email", "amount", "primary"}
               /\ entry.email = C5_Value(obj.email)
               /\ entry.amount = C5_Value(obj.amount)
               /\ entry.primary = IF obj.primary = Absent
                                  THEN "false" ELSE obj.primary

\* an entry was stored for a record whose primary is present and None
C6_Witness ==
    /\ C6_Stored
    /\ rl_arg[1].primary = None
    /\ rl[Len(rl)].primary = None

\* a string field of a payload that is set and non-empty
C7_NonEmpty(v) == v.kind = "str" /\ ~Falsy(v.s)

\* C7: a Pay payload that reaches the client has non-empty cancelUrl,
\* returnUrl, currencyCode, actionType and ipnNotificationUrl and a non-empty
\* receiverList.receiver.
C7_DispatchedPayloadIsComplete ==
    op = "pay"
        => \A i \in 1..Len(outbound) :
               LET p == outbound[i].params
               IN  /\ C7_NonEmpty(p["cancelUrl"])
                   /\ C7_NonEmpty(p["returnUrl"])
                   /\ C7_NonEmpty(p["currencyCode"])
                   /\ C7_NonEmpty(p["actionType"])
                   /\ C7_NonEmpty(p["ipnNotificationUrl"])
                   /\ p["receiverList"].kind = "receiver"
                   /\ p["receiverList"].items # <<>>

\* the API method each builder names
C8_Method ==
    CASE op = "pay"                    -> "Pay"
      [] op = "get_payment_options"    -> "GetPaymentOptions"
      [] op = "set_payment_options"    -> "SetPaymentOptions"
      [] op = "execute"                -> "ExecutePayment"
      [] op = "get_shipping_addresses" -> "GetShippingAddresses"
      [] op = "call"                   -> args.method

\* the parameters each invocation hands to call
C8_Params ==
    CASE op \in {"pay", "set_payment_options"} -> extra_after
      [] op \in {"get_payment_options", "execute"} ->
             [k \in Keys |-> IF k = "payKey" THEN Str(args.pay_key) ELSE NoValue]
      [] op = "get_shipping_addresses" ->
             [k \in Keys |-> IF k = "key" THEN Str(args.key) ELSE NoValue]
      [] op = "call" -> args.params

\* C8: an invocation that raises makes no client.call; any other makes exactly
\* one, for service AdaptivePayments, the method of the builder, the
\* parameters as built, and the sandbox endpoint exactly when the client is
\* in the sandbox.
C8_OneCallToTheRightEndpoint ==
    op # "none"
        => /\ (raised # NoError => outbound = <<>>)
           /\ (raised = NoError
                 => /\ Len(outbound) = 1
                    /\ outbound[1].service = "AdaptivePayments"
                    /\ outbound[1].method = C8_Method
                    /\ outbound[1].params = C8_Params
                    /\ outbound[1].endpoint =
                           IF args.client.in_sandbox
                           THEN "https://svcs.sandbox.paypal.com"
                           ELSE "https://svcs.paypal.com")

\* set_payment_options reached the production endpoint
C8_Witness ==
    /\ op = "set_payment_options"
    /\ ~args.client.in_sandbox
    /\ Len(outbound) = 1
    /\ outbound[1].endpoint = "https://svcs.paypal.com"

\* `not value` of the i-th required argument of pay
C9_Empty(i) ==
    CASE i = 1 -> Falsy(args.cancel_url)
      [] i = 2 -> Falsy(args.return_url)
      [] i = 3 -> Falsy(args.currency_code)
      [] i = 4 -> Falsy(args.action_type)
      [] i = 5 -> ReceiversFalsy(args.receivers)
      [] i = 6 -> Falsy(args.ipn_callback_url)

C9_Names == <<"cancel_url", "return_url", "currency_code", "action_type",
              "receivers", "ipn_callback_url">>

\* C9: pay raises the error of the earliest failing check: the first empty
\* required argument in the order of C9_Names, then the currency code, then
\* the action type, then a fees payer that is given and unsupported; it
\* raises nothing when all of them pass.
C9_EarliestFailingCheckIsReported ==
    op = "pay"
        => IF \E i \in 1..6 : C9_Empty(i)
           THEN \E i \in 1..6 :
                    /\ C9_Empty(i)
                    /\ \A j \in 1..(i - 1) : ~C9_Empty(j)
                    /\ raised.check = "required"
                    /\ raised.value = C9_Names[i]
           ELSE IF args.currency_code \notin CurrencyCodes
           THEN raised.check = "currency_code"
           ELSE IF args.action_type \notin {"PAY", "CREATE", "PAY_PRIMARY"}
           THEN raised.check = "action_type"
           ELSE IF /\ ~Falsy(args.fees_payer)
                   /\ args.fees_payer \notin {"SENDER", "PRIMARYRECEIVER",
                                              "EACHRECEIVER", "SECONDARYONLY"}
           THEN raised.check = "fees_payer"
           ELSE raised = NoError

\* a call with a bad currency code and a bad action type raised for the code
C9_Witness ==
    /\ op = "pay"
    /\ args.currency_code = "XXX"
    /\ args.action_type = "REFUND"
    /\ raised = InvalidCurrencyCode("XXX")

C10_Derived == {"actionType", "receiverList", "currencyCode", "cancelUrl",
                "returnUrl", "ipnNotificationUrl", "feesPayer"}

\* C10: the payload of a valid pay call with a caller's `extra` holds the
\* other fields of `extra` untouched, the call's own action type, currency
\* code, URLs and normalised receivers whatever `extra` held for them, the
\* IPN URL, and the fees payer of the call when given, else that of `extra`.
C10_PayloadMergesExtraUnderDerivedFields ==
    (op = "pay" /\ raised = NoError /\ args.extra.supplied)
        => /\ Len(outbound) = 1
           /\ LET p == outbound[1].params
                  e == args.extra.value
              IN  /\ \A k \in Keys \ C10_Derived : p[k] = e[k]
                  /\ p["actionType"] = Str(args.action_type)
                  /\ p["currencyCode"] = Str(args.currency_code)
                  /\ p["cancelUrl"] = Str(args.cancel_url)
                  /\ p["returnUrl"] = Str(args.return_url)
                  /\ p["receiverList"] =
                         ReceiverField(
                             IF args.receivers.kind = "ReceiverList"
                             THEN args.receivers.items
                             ELSE SelectSeq(
                                      [i \in 1..Len(args.receivers.items) |->
                                          [email   |-> C5_Value(args.receivers.items[i].email),
                                           amount  |-> C5_Value(args.receivers.items[i].amount),
                                           primary |-> IF args.receivers.items[i].primary = Absent
                                                       THEN "false"
                                                       ELSE args.receivers.items[i].primary]],
                                      C5_HasEmailOrAmount))
                  /\ p["ipnNotificationUrl"] = Str(args.ipn_callback_url)
                  /\ p["feesPayer"] = IF Falsy(args.fees_payer)
                                      THEN e["feesPayer"]
                                      ELSE Str(args.fees_payer)

\* a valid call without fees payer kept the fees payer of the caller's extra
\* and replaced its stale cancelUrl
C10_Witness ==
    /\ op = "pay"
    /\ raised = NoError
    /\ args.extra = Supplied(StaleExtra)
    /\ Falsy(args.fees_payer)
    /\ Len(outbound) = 1
    /\ outbound[1].params["feesPayer"] = Str("EACHRECEIVER")
    /\ outbound[1].params["cancelUrl"] = Str("https://shop/cancel")
    /\ outbound[1].params["custom"] = Str("memo")

====
